---- MODULE Spec2Model ----
(***************************************************************************)
(* Model of the axum task service (src/src/main.rs): four handlers, each   *)
(* executing one SQL statement against the table                           *)
(*   tasks(task_id serial primary key, name text not null, priority int).  *)
(* Option<T> values are modelled as sequences: None is <<>>, Some(x) is    *)
(* <<x>>.  A handler is one atomic step at its single statement; the       *)
(* concurrent specification adds the requests that are in flight.          *)
(***************************************************************************)
EXTENDS Integers, Sequences, FiniteSets, TLC

VARIABLES
  tasks,      \* the rows of table tasks
  seq,        \* the next value of the task_id sequence
  last,       \* the request served last, the table before it, its response
  tick,       \* parity of the number of statements executed
  acked,      \* per task_id, the payload of the last acknowledged write
  assigned,   \* the task_ids returned by creates, in the order of assignment
  inflight,   \* per client, the request accepted and not yet served
  overlap,    \* the clients whose request was in flight when `last` was served
  rival       \* the request served just before `last`, if the two overlapped

vars == <<tasks, seq, last, tick, acked, assigned, inflight, overlap, rival>>

\* ---- bounds and input sets ------------------------------------------------
MaxSeq == 2                       \* creates are accepted while seq <= MaxSeq
Names == {"a", "b"}
Priorities == {1}
PathIds == {1, 2}
Clients == {"c1", "c2"}

None == <<>>
Some(x) == <<x>>
OptNames == {None} \cup {Some(n) : n \in Names}
OptPriorities == {None} \cup {Some(p) : p \in Priorities}

\* ---- structs --------------------------------------------------------------
TaskRow(id, n, p) == [task_id |-> id, name |-> n, priority |-> p]
CreateTaskRow(id) == [task_id |-> id]
CreateTaskReq == [name : Names, priority : OptPriorities]
UpdateTaskReq == [name : OptNames, priority : OptPriorities]

TaskIds(t) == {r.task_id : r \in t}

\* ---- storage: the four statements ----------------------------------------
StmtOk(t, s, rows, ret) ==
  [ok |-> TRUE, tasks |-> t, seq |-> s, rows |-> rows, ret |-> ret, message |-> ""]
StmtErr(t, s, msg) ==
  [ok |-> FALSE, tasks |-> t, seq |-> s, rows |-> <<>>, ret |-> None, message |-> msg]

\* faulty variant: ORDER BY task_id DESC
RECURSIVE OrderByTaskId_desc(_)
OrderByTaskId_desc(rows) ==
  IF rows = {} THEN <<>>
  ELSE LET m == CHOOSE r \in rows : \A q \in rows : r.task_id >= q.task_id
       IN  <<m>> \o OrderByTaskId_desc(rows \ {m})

\* ORDER BY task_id
RECURSIVE OrderByTaskId(_)
OrderByTaskId(rows) ==
  IF rows = {} THEN <<>>
  ELSE LET m == CHOOSE r \in rows : \A q \in rows : r.task_id <= q.task_id
       IN  <<m>> \o OrderByTaskId(rows \ {m})

\* SELECT * FROM tasks ORDER BY task_id
SelectStmt(t, s, fault) ==
  IF fault THEN StmtErr(t, s, "pool error")
  ELSE StmtOk(t, s, OrderByTaskId(t), None)

\* the serial default of task_id: the sequence's next value
NextVal(s) == s

\* faulty variant: the insert binds no priority
InsertStmt_noPriority(t, s, name, priority, fault) ==
  IF fault THEN StmtErr(t, s, "pool error")
  ELSE IF s \in TaskIds(t)
       THEN StmtErr(t, s + 1, "duplicate key value violates unique constraint")
       ELSE StmtOk(t \cup {TaskRow(s, name, None)}, s + 1, <<>>, Some(s))

\* faulty variant: the insert takes max(task_id) + 1 for the new id
InsertStmt_maxPlusOne(t, s, name, priority, fault) ==
  LET top == IF t = {} THEN 0
             ELSE CHOOSE i \in TaskIds(t) : \A j \in TaskIds(t) : i >= j
  IN  IF fault THEN StmtErr(t, s, "pool error")
      ELSE StmtOk(t \cup {TaskRow(top + 1, name, priority)}, s + 1, <<>>,
                  Some(top + 1))

\* INSERT INTO tasks (name, priority) VALUES ($1, $2) RETURNING task_id
InsertStmt(t, s, name, priority, fault) ==
  IF fault THEN StmtErr(t, s, "pool error")
  ELSE LET id == NextVal(s)
       IN  IF id \in TaskIds(t)
           THEN StmtErr(t, s + 1, "duplicate key value violates unique constraint")
           ELSE StmtOk(t \cup {TaskRow(id, name, priority)}, s + 1, <<>>,
                       Some(CreateTaskRow(id).task_id))

\* the name column is NOT NULL
NameNotNull == TRUE

\* faulty variant: the update inserts the row when none matches
UpdateStmt_upsert(t, s, id, name, priority, fault) ==
  LET matched == {r \in t : r.task_id = id}
  IN  IF fault THEN StmtErr(t, s, "pool error")
      ELSE IF name = None
      THEN StmtErr(t, s, "null value in column name violates not-null constraint")
      ELSE StmtOk((t \ matched) \cup {TaskRow(id, name[1], priority)}, s, <<>>, None)

\* faulty variant: priority = COALESCE($3, priority), a merge
UpdateStmt_coalesce(t, s, id, name, priority, fault) ==
  LET matched == {r \in t : r.task_id = id}
  IN  IF fault THEN StmtErr(t, s, "pool error")
      ELSE IF matched /= {} /\ name = None
      THEN StmtErr(t, s, "null value in column name violates not-null constraint")
      ELSE StmtOk((t \ matched) \cup
                    {TaskRow(r.task_id, name[1],
                             IF priority = None THEN r.priority ELSE priority)
                       : r \in matched},
                  s, <<>>, None)

\* faulty variant: a null name is stored as the empty text
UpdateStmt_nullable(t, s, id, name, priority, fault) ==
  LET matched == {r \in t : r.task_id = id}
  IN  IF fault THEN StmtErr(t, s, "pool error")
      ELSE StmtOk((t \ matched) \cup
                    {TaskRow(r.task_id, IF name = None THEN "" ELSE name[1], priority)
                       : r \in matched},
                  s, <<>>, None)

\* UPDATE tasks SET name = $2, priority = $3 WHERE task_id = $1
UpdateStmt(t, s, id, name, priority, fault) ==
  LET matched == {r \in t : r.task_id = id}
  IN  IF fault THEN StmtErr(t, s, "pool error")
      ELSE IF matched /= {} /\ name = None /\ NameNotNull
      THEN StmtErr(t, s, "null value in column name violates not-null constraint")
      ELSE StmtOk((t \ matched) \cup
                    {TaskRow(r.task_id, IF name = None THEN "" ELSE name[1], priority)
                       : r \in matched},
                  s, <<>>, None)

\* faulty variant: a delete that matches no row is an error
DeleteStmt_notFound(t, s, id, fault) ==
  IF fault THEN StmtErr(t, s, "pool error")
  ELSE IF id \notin TaskIds(t) THEN StmtErr(t, s, "no rows affected")
  ELSE StmtOk({r \in t : r.task_id /= id}, s, <<>>, None)

\* faulty variant: DELETE FROM tasks, the WHERE clause lost
DeleteStmt_noWhere(t, s, id, fault) ==
  IF fault THEN StmtErr(t, s, "pool error")
  ELSE StmtOk({}, s, <<>>, None)

\* DELETE FROM tasks WHERE task_id = $1
DeleteStmt(t, s, id, fault) ==
  IF fault THEN StmtErr(t, s, "pool error")
  ELSE StmtOk({r \in t : r.task_id /= id}, s, <<>>, None)

\* ---- responses ------------------------------------------------------------
OK == 200
CREATED == 201
INTERNAL_SERVER_ERROR == 500

\* faulty variant: the error of the statement is dropped
Respond_swallow(r, okStatus) ==
  [status |-> okStatus, success |-> TRUE, rows |-> r.rows, ret |-> r.ret,
   message |-> ""]

\* what a handler returns for the statement result r: the map_err closure on
\* Err, the Ok tuple with the given status otherwise
Respond(r, okStatus) ==
  IF r.ok
  THEN [status |-> okStatus, success |-> TRUE, rows |-> r.rows, ret |-> r.ret,
        message |-> ""]
  ELSE [status |-> INTERNAL_SERVER_ERROR, success |-> FALSE, rows |-> <<>>,
        ret |-> None, message |-> r.message]

\* the record of the request served last and of its response
Served(op, id, name, priority, fault, r, resp) ==
  [op |-> op, task_id |-> id, name |-> name, priority |-> priority,
   fault |-> fault, ok |-> r.ok, resp |-> resp, pre |-> tasks,
   again |-> /\ last.op = op
             /\ last.task_id = id
             /\ last.resp.success]

NoReq == [op |-> "none", task_id |-> 0, name |-> None, priority |-> None]
ReqUpdate(id, body) ==
  [op |-> "update", task_id |-> id, name |-> body.name, priority |-> body.priority]
ReqDelete(id) == [op |-> "delete", task_id |-> id, name |-> None, priority |-> None]

\* ---- handlers -------------------------------------------------------------
get_tasks(fault) ==
  LET r == SelectStmt(tasks, seq, fault)
      resp == Respond(r, OK)
  IN  /\ tasks' = r.tasks
      /\ seq' = r.seq
      /\ last' = Served("list", 0, None, None, fault, r, resp)
      /\ tick' = 1 - tick
      /\ UNCHANGED <<acked, assigned>>

create_task(task, fault) ==
  LET r == InsertStmt(tasks, seq, task.name, task.priority, fault)
      resp == Respond(r, CREATED)
  IN  /\ seq <= MaxSeq
      /\ tasks' = r.tasks
      /\ seq' = r.seq
      /\ last' = Served("create", 0, Some(task.name), task.priority, fault, r, resp)
      /\ tick' = 1 - tick
      /\ IF resp.status = CREATED
         THEN /\ acked' = [i \in DOMAIN acked \cup {resp.ret[1]} |->
                             IF i = resp.ret[1]
                             THEN [via |-> "create", name |-> task.name,
                                   priority |-> task.priority, had |-> None]
                             ELSE acked[i]]
              /\ assigned' = Append(assigned, resp.ret[1])
         ELSE UNCHANGED <<acked, assigned>>

update_task(task_id, task, fault) ==
  LET r == UpdateStmt(tasks, seq, task_id, task.name, task.priority, fault)
      resp == Respond(r, OK)
  IN  /\ tasks' = r.tasks
      /\ seq' = r.seq
      /\ last' = Served("update", task_id, task.name, task.priority, fault, r, resp)
      /\ tick' = 1 - tick
      /\ acked' = IF resp.status = OK /\ task_id \in DOMAIN acked
                  THEN [acked EXCEPT ![task_id] =
                          [via |-> "update",
                           name |-> IF task.name = None THEN "" ELSE task.name[1],
                           priority |-> task.priority,
                           had |-> acked[task_id].priority]]
                  ELSE acked
      /\ UNCHANGED assigned

delete_task(task_id, fault) ==
  LET r == DeleteStmt(tasks, seq, task_id, fault)
      resp == Respond(r, OK)
  IN  /\ tasks' = r.tasks
      /\ seq' = r.seq
      /\ last' = Served("delete", task_id, None, None, fault, r, resp)
      /\ tick' = 1 - tick
      /\ acked' = IF resp.status = OK
                  THEN [i \in DOMAIN acked \ {task_id} |-> acked[i]]
                  ELSE acked
      /\ UNCHANGED assigned

NoneServed ==
  [op |-> "none", task_id |-> 0, name |-> None, priority |-> None,
   fault |-> FALSE, ok |-> TRUE, pre |-> {}, again |-> FALSE,
   resp |-> Respond(StmtOk({}, 1, <<>>, None), OK)]

\* ---- requests served one at a time ---------------------------------------
Init ==
  /\ tasks = {}
  /\ seq = 1
  /\ last = NoneServed
  /\ tick = 0
  /\ acked = <<>>
  /\ assigned = <<>>
  /\ inflight = [c \in Clients |-> NoReq]
  /\ overlap = {}
  /\ rival = NoneServed

InFlight(c) == inflight[c].op \in {"update", "delete"}

\* a request accepted and served in one step
Alone == /\ rival' = NoneServed
         /\ overlap' = {d \in Clients : InFlight(d)}
         /\ UNCHANGED inflight

GetTasks == \E fault \in BOOLEAN : get_tasks(fault) /\ Alone
PostTasks ==
  \E task \in CreateTaskReq, fault \in BOOLEAN :
    create_task(task, fault) /\ Alone
PatchTask ==
  \E id \in PathIds, task \in UpdateTaskReq, fault \in BOOLEAN :
    update_task(id, task, fault) /\ Alone
DeleteTask ==
  \E id \in PathIds, fault \in BOOLEAN : delete_task(id, fault) /\ Alone

Next == GetTasks \/ PostTasks \/ PatchTask \/ DeleteTask

Spec == Init /\ [][Next]_vars

\* ---- two clients, each with one PATCH or DELETE, in flight together ------
\* A request is accepted (the extractors ran), waits for the pool, and is
\* served by its handler; the statement is the one step that touches the table.
\* A client that got its response has left.
Left == [op |-> "left", task_id |-> 0, name |-> None, priority |-> None]
Others(c) == {d \in Clients \ {c} : InFlight(d)}

Accept(c, req) ==
  /\ inflight[c] = NoReq
  /\ inflight' = [inflight EXCEPT ![c] = req]
  /\ UNCHANGED <<tasks, seq, last, tick, acked, assigned, overlap, rival>>

AcceptPatch(c) ==
  \E id \in PathIds, task \in UpdateTaskReq : Accept(c, ReqUpdate(id, task))
AcceptDelete(c) == \E id \in PathIds : Accept(c, ReqDelete(id))

Together(c) ==
  /\ rival' = IF c \in overlap THEN last ELSE NoneServed
  /\ overlap' = Others(c)
  /\ inflight' = [inflight EXCEPT ![c] = Left]

ServePatch(c) ==
  /\ inflight[c].op = "update"
  /\ \E fault \in BOOLEAN :
       update_task(inflight[c].task_id,
                   [name |-> inflight[c].name, priority |-> inflight[c].priority],
                   fault)
  /\ Together(c)

ServeDelete(c) ==
  /\ inflight[c].op = "delete"
  /\ \E fault \in BOOLEAN : delete_task(inflight[c].task_id, fault)
  /\ Together(c)

\* the tables earlier creates and deletes can have left: the ids 1..n are
\* assigned, any of them deleted since, every row as its create wrote it
InitConc ==
  \E n \in 0..MaxSeq :
    \E live \in SUBSET (1..n) :
      \E name \in [live -> Names], priority \in [live -> OptPriorities] :
        /\ tasks = {TaskRow(i, name[i], priority[i]) : i \in live}
        /\ seq = n + 1
        /\ last = NoneServed
        /\ tick = 0
        /\ acked = [i \in live |-> [via |-> "create", name |-> name[i],
                                     priority |-> priority[i], had |-> None]]
        /\ assigned = [k \in 1..n |-> k]
        /\ inflight = [c \in Clients |-> NoReq]
        /\ overlap = {}
        /\ rival = NoneServed

NextConc ==
  \/ \E c \in Clients : AcceptPatch(c)
  \/ \E c \in Clients : AcceptDelete(c)
  \/ \E c \in Clients : ServePatch(c)
  \/ \E c \in Clients : ServeDelete(c)

SpecConc == InitConc /\ [][NextConc]_vars

\* ---- properties ----------------------------------------------------------
Listed(rows) == {rows[k] : k \in 1..Len(rows)}
RowsOf(t, id) == {r \in t : r.task_id = id}
Success(s) == s.resp.success /\ s.resp.status \in {OK, CREATED}
ListedOk == last.op = "list" /\ last.resp.status = OK

\* C1: a create that succeeds returns 201 with a positive task_id and leaves
\* the row (task_id, name, priority) in the table; a list served later, with
\* no acknowledged update or delete of that id in between, returns that row.
C1_CreateThenList ==
  /\ (last.op = "create" /\ last.ok) =>
        /\ last.resp.status = CREATED
        /\ last.resp.success
        /\ last.resp.ret /= None
        /\ last.resp.ret[1] > 0
        /\ TaskRow(last.resp.ret[1], last.name[1], last.priority) \in tasks
  /\ ListedOk =>
        \A i \in DOMAIN acked :
          acked[i].via = "create" =>
            TaskRow(i, acked[i].name, acked[i].priority) \in Listed(last.resp.rows)

C1_Witness ==
  /\ ListedOk
  /\ \E i \in DOMAIN acked : acked[i].via = "create" /\ acked[i].priority = None
  /\ \E i \in DOMAIN acked : acked[i].via = "create" /\ acked[i].priority /= None

\* C2: a list whose statement succeeds returns 200 with every row of the
\* table exactly once, strictly ascending by task_id.
C2_ListSorted ==
  (last.op = "list" /\ last.ok) =>
    LET rows == last.resp.rows
    IN  /\ last.resp.status = OK
        /\ last.resp.success
        /\ Listed(rows) = tasks
        /\ Len(rows) = Cardinality(tasks)
        /\ \A k \in 1..(Len(rows) - 1) : rows[k].task_id < rows[k + 1].task_id

C2_Witness ==
  /\ ListedOk
  /\ Len(last.resp.rows) = 2
  /\ \E i \in DOMAIN acked : acked[i].via = "update"

\* C3: absent a storage failure a delete returns 200 success, whether or
\* not a row matched, and leaves no row with its id; the same delete served
\* again right after a successful one succeeds too and leaves the table as
\* the first one left it.
C3_DeleteIdempotent ==
  (last.op = "delete" /\ ~last.fault) =>
    /\ last.resp.status = OK
    /\ last.resp.success
    /\ RowsOf(tasks, last.task_id) = {}
    /\ last.again => tasks = last.pre

C3_Witness ==
  /\ last.op = "delete"
  /\ last.again
  /\ ~last.fault
  /\ last.task_id \in {assigned[k] : k \in 1..Len(assigned)}
  /\ tasks /= {}

\* C4: an update whose id matches no row leaves the table as it was and,
\* absent a storage failure, returns 200 success, whatever the body.
C4_UpdateMissing ==
  (last.op = "update" /\ RowsOf(last.pre, last.task_id) = {}) =>
    /\ tasks = last.pre
    /\ ~last.fault => (last.resp.status = OK /\ last.resp.success)

C4_Witness ==
  /\ last.op = "update"
  /\ RowsOf(last.pre, last.task_id) = {}
  /\ last.pre /= {}
  /\ last.name = None
  /\ last.priority = None
  /\ last.resp.status = OK

\* C5: an update of an existing task that gives a name and omits priority
\* returns success, stores the given name and a null priority, and a later
\* list shows the task so.
C5_PriorityOverwritten ==
  /\ ( /\ last.op = "update"
       /\ RowsOf(last.pre, last.task_id) /= {}
       /\ last.name /= None
       /\ last.priority = None
       /\ ~last.fault ) =>
        /\ last.resp.status = OK
        /\ last.resp.success
        /\ RowsOf(tasks, last.task_id) = {TaskRow(last.task_id, last.name[1], None)}
  /\ ListedOk =>
        \A i \in DOMAIN acked :
          (acked[i].via = "update" /\ acked[i].priority = None) =>
            /\ TaskRow(i, acked[i].name, None) \in Listed(last.resp.rows)
            /\ \A r \in Listed(last.resp.rows) : r.task_id = i => r.priority = None

C5_Witness ==
  /\ ListedOk
  /\ \E i \in DOMAIN acked :
       /\ acked[i].via = "update"
       /\ acked[i].priority = None
       /\ acked[i].had /= None

C7_IdsUniqueIncreasing ==
  /\ \A r, q \in tasks : r.task_id = q.task_id => r = q
  /\ \A k \in 1..(Len(assigned) - 1) : assigned[k] < assigned[k + 1]
  /\ TaskIds(tasks) \subseteq {assigned[k] : k \in 1..Len(assigned)}
  /\ (last.op = "create" /\ last.resp.status = CREATED) =>
        /\ last.resp.ret[1] = assigned[Len(assigned)]
        /\ last.resp.ret[1] \notin TaskIds(last.pre)

C7_Witness ==
  /\ last.op = "create"
  /\ last.resp.status = CREATED
  /\ Len(assigned) = 2
  /\ assigned[1] \notin TaskIds(tasks)

\* C8: a handler whose statement fails returns 500 with the failure
\* envelope and leaves the table as it was, a storage fault is never
\* recovered from (no retry); a handler whose statement succeeds returns its
\* success status, never 500.
C8_StatementFailure ==
  last.op /= "none" =>
    /\ last.fault => ~last.ok
    /\ ~last.ok =>
         /\ last.resp.status = INTERNAL_SERVER_ERROR
         /\ ~last.resp.success
         /\ last.resp.message /= ""
         /\ last.resp.rows = <<>>
         /\ last.resp.ret = None
         /\ tasks = last.pre
    /\ last.ok =>
         /\ last.resp.status = (IF last.op = "create" THEN CREATED ELSE OK)
         /\ last.resp.status /= INTERNAL_SERVER_ERROR
         /\ last.resp.success
         /\ last.resp.message = ""

C8_Witness ==
  /\ last.op = "delete"
  /\ last.fault
  /\ RowsOf(last.pre, last.task_id) /= {}
  /\ last.resp.status = INTERNAL_SERVER_ERROR

\* C10: an update or delete with path id i leaves every row with another
\* task_id as it was; an update changes neither the task_ids nor the number
\* of rows; a delete removes at most one row; a list changes nothing.
C10_Frame ==
  /\ last.op \in {"update", "delete"} =>
        /\ \A r \in last.pre : r.task_id /= last.task_id => r \in tasks
        /\ \A r \in tasks : r.task_id /= last.task_id => r \in last.pre
  /\ last.op = "update" =>
        /\ TaskIds(tasks) = TaskIds(last.pre)
        /\ Cardinality(tasks) = Cardinality(last.pre)
  /\ last.op = "delete" =>
        /\ tasks \subseteq last.pre
        /\ Cardinality(last.pre \ tasks) <= 1
  /\ last.op = "list" => tasks = last.pre

C10_Witness ==
  /\ last.op = "update"
  /\ last.resp.status = OK
  /\ Cardinality(tasks) = 2
  /\ tasks /= last.pre

\* ---- properties of requests in flight together ---------------------------
\* rival and last were in flight together, addressed the same id, were served
\* one right after the other, and no storage fault hit either
Raced(op1, op2) ==
  /\ {rival.op, last.op} = {op1, op2}
  /\ rival.task_id = last.task_id
  /\ ~rival.fault
  /\ ~last.fault

====
